---- MODULE Spec2Model ----
(***************************************************************************)
(* CustomPromptView (codex-rs/tui/src/bottom_pane/custom_prompt_view.rs):  *)
(* a modal multi-line prompt.  The view owns a title, the on_submit        *)
(* callback, a TextArea, the TextArea's transient render state and the     *)
(* complete flag.  Every BottomPaneView method is one action; the calls    *)
(* the method makes on its collaborators (the TextArea, the ratatui        *)
(* widgets, on_submit) are recorded, in order, in `calls`.                 *)
(***************************************************************************)
EXTENDS Integers, Sequences, FiniteSets, TLC

VARIABLES
    title,          \* CustomPromptView.title
    textarea,       \* CustomPromptView.textarea: [text, cursor]
    textarea_state, \* CustomPromptView.textarea_state: [scroll]
    complete,       \* CustomPromptView.complete
    submits,        \* how many times on_submit has been invoked
    op,             \* the method handled last
    arg,            \* its argument
    ret,            \* its return value
    calls           \* the calls it made on its collaborators, in order

vars == <<title, textarea, textarea_state, complete, submits, op, arg, ret, calls>>

view == <<title, textarea, textarea_state, complete>>

----------------------------------------------------------------------------
(* Bounds of the exploration *)

\* keys and pastes are explored while they leave the text no longer than this
MaxLen == 3

\* events are explored until on_submit has been invoked this many times
MaxSubmits == 2

----------------------------------------------------------------------------
(* u16 arithmetic *)

U16Max == 65535

Min(a, b) == IF a <= b THEN a ELSE b

Max(a, b) == IF a >= b THEN a ELSE b

saturating_sub(a, b) == IF a >= b THEN a - b ELSE 0

saturating_add(a, b) == Min(a + b, U16Max)

clamp(v, lo, hi) == IF v < lo THEN lo ELSE IF v > hi THEN hi ELSE v

\* a + b in u16: the sum when it fits, otherwise the build decides (a panic
\* with overflow checks, the wrapped value without)
Overflows(n) == n > U16Max

Wrapped(n) == n % (U16Max + 1)

----------------------------------------------------------------------------
(* Strings are sequences of characters *)

NL == "\n"

SP == " "

CR == "\r"

\* char::is_whitespace, the test str::trim applies: the code points with the
\* Unicode White_Space property, U+0009..U+000D, U+0020, U+0085, U+00A0,
\* U+1680, U+2000..U+200A, U+2028, U+2029, U+202F, U+205F and U+3000.  A
\* character is the one-character string; the code points from U+2000 up,
\* which a string literal cannot hold, are spelled by their code point.
White_Space ==
    {"\t", NL, "", "\f", CR, SP, "", " ", " ",
     "U+2000", "U+2001", "U+2002", "U+2003", "U+2004", "U+2005", "U+2006", "U+2007",
     "U+2008", "U+2009", "U+200A", "U+2028", "U+2029", "U+202F", "U+205F", "U+3000"}

IsWhitespace(c) == c \in White_Space

RECURSIVE trim_start(_)
trim_start(s) ==
    IF s = <<>> THEN s
    ELSE IF IsWhitespace(Head(s)) THEN trim_start(Tail(s)) ELSE s

RECURSIVE trim_end(_)
trim_end(s) ==
    IF s = <<>> THEN s
    ELSE IF IsWhitespace(s[Len(s)]) THEN trim_end(SubSeq(s, 1, Len(s) - 1)) ELSE s

trim_leading_only(s) == trim_start(s)

\* str::trim: leading and trailing whitespace removed
trim(s) == trim_end(trim_start(s))

----------------------------------------------------------------------------
(* Key events *)

NONE == {}

Key(code, ch, modifiers) == [code |-> code, ch |-> ch, modifiers |-> modifiers]

EnterModifiers == {NONE, {"SHIFT"}, {"CONTROL"}, {"SHIFT", "ALT"}}

KeyEvents ==
    {Key("Esc", "", m) : m \in {NONE, {"SHIFT"}}}
    \cup {Key("Enter", "", m) : m \in EnterModifiers}
    \cup {Key("Char", c, NONE) : c \in {"a", SP}}
    \cup {Key("Left", "", NONE), Key("Backspace", "", NONE)}

Pastes == {<<>>, <<NL>>, <<CR, NL>>, <<SP, "a", NL>>}

----------------------------------------------------------------------------
(* The TextArea, at its interface *)

TextAreaNew == [text |-> <<>>, cursor |-> 0]

TextAreaText(ta) == ta.text

\* TextArea::insert_str: the string goes in at the cursor, the cursor after it
TextAreaInsertStr(ta, s) ==
    [text |-> SubSeq(ta.text, 1, ta.cursor) \o s
                \o SubSeq(ta.text, ta.cursor + 1, Len(ta.text)),
     cursor |-> ta.cursor + Len(s)]

\* TextArea::input: character insert, newline on Enter, backspace, arrows
TextAreaInput(ta, key_event) ==
    CASE key_event.code = "Char" -> TextAreaInsertStr(ta, <<key_event.ch>>)
      [] key_event.code = "Enter" -> TextAreaInsertStr(ta, <<NL>>)
      [] key_event.code = "Left" ->
            [ta EXCEPT !.cursor = saturating_sub(ta.cursor, 1)]
      [] key_event.code = "Backspace" ->
            IF ta.cursor = 0 THEN ta
            ELSE [text |-> SubSeq(ta.text, 1, ta.cursor - 1)
                             \o SubSeq(ta.text, ta.cursor + 1, Len(ta.text)),
                  cursor |-> ta.cursor - 1]
      [] OTHER -> ta

----------------------------------------------------------------------------
(* Calls on collaborators *)

NoRect == [x |-> 0, y |-> 0, width |-> 0, height |-> 0]

Call(fn, a, rect) == [fn |-> fn, arg |-> a, rect |-> rect]

CallsTo(fn) == {i \in 1..Len(calls) : calls[i].fn = fn}

----------------------------------------------------------------------------
(* CustomPromptView::new *)

new(t) ==
    /\ title = t
    /\ textarea = TextAreaNew
    /\ textarea_state = [scroll |-> 0]
    /\ complete = FALSE

Init ==
    /\ new(<<"R">>)
    /\ submits = 0
    /\ op = "new"
    /\ arg = <<>>
    /\ ret = <<>>
    /\ calls = <<>>

----------------------------------------------------------------------------
(* handle_key_event *)

KeyArm_any_enter(key_event) ==
    CASE key_event.code = "Esc" -> "cancel"
      [] key_event.code = "Enter" -> "submit"
      [] OTHER -> "other"

KeyArm_plain_esc(key_event) ==
    CASE key_event.code = "Esc" /\ key_event.modifiers = NONE -> "cancel"
      [] key_event.code = "Enter" /\ key_event.modifiers = NONE -> "submit"
      [] key_event.code = "Enter" -> "newline"
      [] OTHER -> "other"


KeyArm_enter_to_editor(key_event) ==
    CASE key_event.code = "Esc" -> "cancel"
      [] key_event.code = "Enter" -> "newline"
      [] OTHER -> "other"

\* the arm of the match the event takes
KeyArm(key_event) ==
    CASE key_event.code = "Esc" -> "cancel"
      [] key_event.code = "Enter" /\ key_event.modifiers = NONE -> "submit"
      [] key_event.code = "Enter" -> "newline"
      [] OTHER -> "other"

complete_after_assigned(key_event) == KeyArm(key_event) \in {"cancel", "submit"}

\* complete after the event: set by the cancel and submit arms, left alone by the rest
complete_after(key_event) ==
    IF KeyArm(key_event) \in {"cancel", "submit"} THEN TRUE ELSE complete

handle_key_event(key_event) ==
    /\ submits < MaxSubmits
    /\ op' = "handle_key_event"
    /\ arg' = key_event
    /\ ret' = <<>>
    /\ UNCHANGED <<title, textarea_state>>
    /\ complete' = complete_after(key_event)
    /\ CASE KeyArm(key_event) = "cancel" ->
              /\ calls' = <<>>
              /\ UNCHANGED <<textarea, submits>>
         [] KeyArm(key_event) = "submit" ->
              LET text == trim(TextAreaText(textarea)) IN
              /\ IF text # <<>>
                 THEN /\ calls' = <<Call("textarea.text", <<>>, NoRect),
                                    Call("on_submit", text, NoRect)>>
                      /\ submits' = submits + 1
                 ELSE /\ calls' = <<Call("textarea.text", <<>>, NoRect)>>
                      /\ UNCHANGED submits
              /\ UNCHANGED textarea
         [] OTHER ->
              /\ Len(TextAreaInput(textarea, key_event).text) <= MaxLen
              /\ textarea' = TextAreaInput(textarea, key_event)
              /\ calls' = <<Call("textarea.input", key_event, NoRect)>>
              /\ UNCHANGED submits

----------------------------------------------------------------------------
(* is_complete *)

is_complete ==
    /\ op' = "is_complete"
    /\ arg' = <<>>
    /\ ret' = complete
    /\ calls' = <<>>
    /\ UNCHANGED <<view, submits>>

----------------------------------------------------------------------------
(* handle_paste *)

is_empty_paste_never(pasted) == FALSE

\* pasted.is_empty(): the early return of handle_paste
is_empty_paste(pasted) == pasted = <<>>

handle_paste(pasted) ==
    /\ submits < MaxSubmits
    /\ op' = "handle_paste"
    /\ arg' = pasted
    /\ UNCHANGED <<title, textarea_state, complete, submits>>
    /\ IF is_empty_paste(pasted)
       THEN /\ ret' = FALSE
            /\ calls' = <<>>
            /\ UNCHANGED textarea
       ELSE /\ Len(textarea.text) + Len(pasted) <= MaxLen
            /\ textarea' = TextAreaInsertStr(textarea, pasted)
            /\ calls' = <<Call("textarea.insert_str", pasted, NoRect)>>
            /\ ret' = TRUE

----------------------------------------------------------------------------
(* The TextArea's layout queries, at their interface *)

\* rows the text takes when wrapped at `width` columns; `col` is the column
\* the next character would go to
RECURSIVE WrapRows(_, _, _)
WrapRows(s, width, col) ==
    IF s = <<>> THEN 1
    ELSE IF Head(s) = NL THEN 1 + WrapRows(Tail(s), width, 0)
    ELSE IF col >= width THEN 1 + WrapRows(Tail(s), width, 1)
    ELSE WrapRows(Tail(s), width, col + 1)

RECURSIVE WrapCol(_, _, _)
WrapCol(s, width, col) ==
    IF s = <<>> THEN col
    ELSE IF Head(s) = NL THEN WrapCol(Tail(s), width, 0)
    ELSE IF col >= width THEN WrapCol(Tail(s), width, 1)
    ELSE WrapCol(Tail(s), width, col + 1)

\* TextArea::desired_height: a pure function of content and width
\* (no row fits in no column)
TextAreaDesiredHeight(ta, width) ==
    IF width = 0 THEN 0 ELSE Min(WrapRows(ta.text, width, 0), U16Max)

\* the wrapped row (from 0) and column the cursor is on
TextAreaCursorRow(ta, width) ==
    WrapRows(SubSeq(ta.text, 1, ta.cursor), Max(width, 1), 0) - 1

TextAreaCursorCol(ta, width) ==
    WrapCol(SubSeq(ta.text, 1, ta.cursor), Max(width, 1), 0)

\* the scroll that keeps the cursor's row inside a window of rect.height rows
TextAreaScroll(ta, rect, state) ==
    LET row == TextAreaCursorRow(ta, rect.width)
        top == Min(state.scroll,
                   saturating_sub(TextAreaDesiredHeight(ta, rect.width), rect.height))
    IN  IF row < top THEN row
        ELSE IF row >= top + rect.height THEN row + 1 - rect.height
        ELSE top

\* StatefulWidgetRef::render_ref for &TextArea: the state after the render
TextAreaRenderRef(ta, rect, state) ==
    IF rect.width = 0 \/ rect.height = 0 THEN state
    ELSE [scroll |-> TextAreaScroll(ta, rect, state)]

NoPos == [some |-> FALSE, x |-> 0, y |-> 0]

\* TextArea::cursor_pos_with_state: the caret in buffer coordinates, or none
\* when the state's scroll leaves the cursor's row out of view
TextAreaCursorPosWithState(ta, rect, state) ==
    LET row == TextAreaCursorRow(ta, rect.width)
        col == TextAreaCursorCol(ta, rect.width)
        top == state.scroll
    IN  IF rect.width = 0 \/ rect.height = 0 \/ row < top \/ row >= top + rect.height
        THEN NoPos
        ELSE [some |-> TRUE,
              x |-> saturating_add(rect.x, Min(col, rect.width - 1)),
              y |-> saturating_add(rect.y, row - top)]

----------------------------------------------------------------------------
(* input_height, desired_height *)

Gutter == 2

MinTextRows == 1

MaxTextRows == 8

MaxInputRows == 9

input_height_unclamped(width) ==
    LET usable_width == saturating_sub(width, Gutter)
        text_height == TextAreaDesiredHeight(textarea, usable_width)
    IN  saturating_add(text_height, 1)


input_height_floorless(width) ==
    LET usable_width == saturating_sub(width, Gutter)
        text_height == Min(TextAreaDesiredHeight(textarea, usable_width), MaxTextRows)
    IN  Min(saturating_add(text_height, 1), MaxInputRows)

input_height(width) ==
    LET usable_width == saturating_sub(width, Gutter)
        text_height == clamp(TextAreaDesiredHeight(textarea, usable_width),
                             MinTextRows, MaxTextRows)
    IN  Min(saturating_add(text_height, 1), MaxInputRows)

\* 1 + input_height + 2 in u16
desired_height_value(width) == 1 + input_height(width) + 2

desired_height(width) ==
    /\ op' = "desired_height"
    /\ arg' = width
    /\ ret' = [overflow |-> Overflows(desired_height_value(width)),
               value |-> Wrapped(desired_height_value(width))]
    /\ calls' = <<Call("textarea.desired_height", saturating_sub(width, Gutter), NoRect)>>
    /\ UNCHANGED <<view, submits>>

----------------------------------------------------------------------------
(* cursor_pos *)

Rect(x, y, width, height) == [x |-> x, y |-> y, width |-> width, height |-> height]

cursor_pos_none_narrower(area) == area.height < 2 \/ area.width < 2

\* the early return of cursor_pos
cursor_pos_none(area) == area.height < 2 \/ area.width <= 2


cursor_pos_textarea_rect_row1(area) ==
    Rect(saturating_add(area.x, 2), saturating_add(area.y, 1),
         saturating_sub(area.width, 2),
         saturating_sub(input_height(area.width), 1))

cursor_pos_textarea_rect(area) ==
    Rect(saturating_add(area.x, 2), saturating_add(area.y, 2),
         saturating_sub(area.width, 2),
         saturating_sub(input_height(area.width), 1))


cursor_pos_scrolling(area) ==
    /\ op' = "cursor_pos"
    /\ arg' = area
    /\ UNCHANGED <<title, textarea, complete, submits>>
    /\ IF cursor_pos_none(area)
       THEN /\ ret' = NoPos
            /\ calls' = <<>>
            /\ UNCHANGED textarea_state
       ELSE /\ textarea_state' = TextAreaRenderRef(textarea,
                                     cursor_pos_textarea_rect(area), textarea_state)
            /\ ret' = TextAreaCursorPosWithState(textarea,
                          cursor_pos_textarea_rect(area), textarea_state')
            /\ calls' = <<Call("textarea.desired_height",
                               saturating_sub(area.width, Gutter), NoRect),
                          Call("textarea.cursor_pos_with_state", <<>>,
                               cursor_pos_textarea_rect(area))>>

cursor_pos(area) ==
    /\ op' = "cursor_pos"
    /\ arg' = area
    /\ UNCHANGED <<view, submits>>
    /\ IF cursor_pos_none(area)
       THEN /\ ret' = NoPos
            /\ calls' = <<>>
       ELSE IF cursor_pos_textarea_rect(area).height = 0
       THEN /\ ret' = NoPos
            /\ calls' = <<Call("textarea.desired_height",
                               saturating_sub(area.width, Gutter), NoRect)>>
       ELSE /\ ret' = TextAreaCursorPosWithState(textarea,
                          cursor_pos_textarea_rect(area), textarea_state)
            /\ calls' = <<Call("textarea.desired_height",
                               saturating_sub(area.width, Gutter), NoRect),
                          Call("textarea.cursor_pos_with_state", <<>>,
                               cursor_pos_textarea_rect(area))>>

----------------------------------------------------------------------------
(* render *)

\* Clear, then the quote bar, unless the area is empty
render_blank_prefixed_line(area) ==
    IF area.width = 0 \/ area.height = 0 THEN <<>>
    ELSE <<Call("Clear.render", "blank", area),
           Call("Paragraph.render", "blank", area)>>

render_returns_early_both(area) == area.height = 0 /\ area.width = 0

\* the early return of render
render_returns_early(area) == area.height = 0 \/ area.width = 0

title_area(area) == Rect(area.x, area.y, area.width, 1)

input_area(area) ==
    Rect(area.x, saturating_add(area.y, 1), area.width, input_height(area.width))

\* the quote bar of the input rows, one draw a row
RECURSIVE gutter_rows(_, _)
gutter_rows(ia, row) ==
    IF row >= ia.height THEN <<>>
    ELSE <<Call("Paragraph.render", "gutter",
                Rect(ia.x, saturating_add(ia.y, row), 2, 1))>>
         \o gutter_rows(ia, row + 1)

blank_rect(ia) == Rect(saturating_add(ia.x, 2), ia.y, saturating_sub(ia.width, 2), 1)


render_textarea_rect_no_spacer(ia) ==
    Rect(saturating_add(ia.x, 2), ia.y,
         saturating_sub(ia.width, 2), saturating_sub(ia.height, 1))

render_textarea_rect(ia) ==
    Rect(saturating_add(ia.x, 2), saturating_add(ia.y, 1),
         saturating_sub(ia.width, 2), saturating_sub(ia.height, 1))

\* whether render reaches the TextArea's stateful render
renders_textarea(area) ==
    /\ ~render_returns_early(area)
    /\ input_area(area).width >= 2
    /\ saturating_sub(input_area(area).height, 1) > 0

input_calls(ia) ==
    IF ia.width >= 2
    THEN gutter_rows(ia, 0)
         \o (IF saturating_sub(ia.height, 1) > 0
             THEN (IF ia.width > 2
                   THEN <<Call("Clear.render", "spacer", blank_rect(ia))>>
                   ELSE <<>>)
                  \o <<Call("textarea.render_ref", <<>>, render_textarea_rect(ia)),
                       Call("textarea.text", <<>>, NoRect)>>
                  \o (IF TextAreaText(textarea) = <<>>
                      THEN <<Call("Paragraph.render", "placeholder",
                                  render_textarea_rect(ia))>>
                      ELSE <<>>)
             ELSE <<>>)
    ELSE <<>>


hint_blank_y_no_title(area) == saturating_add(area.y, input_height(area.width))

hint_blank_y(area) ==
    saturating_add(saturating_add(area.y, 1), input_height(area.width))

hint_y(area) == saturating_add(hint_blank_y(area), 1)


hint_calls_inclusive(area) ==
    (IF hint_blank_y(area) <= saturating_add(area.y, area.height)
     THEN render_blank_prefixed_line(Rect(area.x, hint_blank_y(area), area.width, 1))
     ELSE <<>>)
    \o (IF hint_y(area) <= saturating_add(area.y, area.height)
        THEN <<Call("Paragraph.render", "hint",
                    Rect(area.x, hint_y(area), area.width, 1))>>
        ELSE <<>>)

hint_calls(area) ==
    (IF hint_blank_y(area) < saturating_add(area.y, area.height)
     THEN render_blank_prefixed_line(Rect(area.x, hint_blank_y(area), area.width, 1))
     ELSE <<>>)
    \o (IF hint_y(area) < saturating_add(area.y, area.height)
        THEN <<Call("Paragraph.render", "hint",
                    Rect(area.x, hint_y(area), area.width, 1))>>
        ELSE <<>>)

render(area) ==
    /\ op' = "render"
    /\ arg' = area
    /\ ret' = <<>>
    /\ UNCHANGED <<title, textarea, complete, submits>>
    /\ IF render_returns_early(area)
       THEN /\ calls' = <<>>
            /\ UNCHANGED textarea_state
       ELSE /\ calls' = <<Call("textarea.desired_height",
                               saturating_sub(area.width, Gutter), NoRect),
                          Call("Paragraph.render", "title", title_area(area))>>
                        \o input_calls(input_area(area))
                        \o hint_calls(area)
            /\ textarea_state' =
                 IF renders_textarea(area)
                 THEN TextAreaRenderRef(textarea,
                          render_textarea_rect(input_area(area)), textarea_state)
                 ELSE textarea_state

----------------------------------------------------------------------------
(* The inputs explored *)

Widths == {0, 1, 2, 3, 4, 7, U16Max}

Origins == {<<0, 0>>, <<3, 5>>, <<U16Max - 1, U16Max - 3>>}

Rects ==
    {Rect(o[1], o[2], w, h) : o \in Origins, w \in {0, 1, 2, 3, 7}, h \in {0, 1, 2, 5, 12}}

\* the rectangles the event-driven specification queries with
FrameWidths == {0, 4}

FrameRects == {Rect(0, 0, 0, 5), Rect(3, 5, 4, 5)}

----------------------------------------------------------------------------

Events ==
    \/ \E key_event \in KeyEvents : handle_key_event(key_event)
    \/ \E pasted \in Pastes : handle_paste(pasted)

Next ==
    \/ Events
    \/ is_complete
    \/ \E width \in FrameWidths : desired_height(width)
    \/ \E area \in FrameRects : render(area)
    \/ \E area \in FrameRects : cursor_pos(area)

\* the view from construction, under every event and per-frame query
Spec == Init /\ [][Next]_vars

----------------------------------------------------------------------------
(* The per-frame queries as functions of the view's content *)

Repeat(c, n) == [i \in 1..n |-> c]

\* contents a user can type or paste, from empty to more rows than the view shows
SampleTexts ==
    {<<>>, <<"a">>, <<SP, NL>>, Repeat("a", 5), <<"a", NL, "a", NL, "a">>,
     Repeat("a", 8), Repeat(NL, 8) \o <<"a">>, Repeat("a", 9),
     <<"a">> \o Repeat(NL, 11)}

LayoutInit ==
    /\ title = <<"R">>
    /\ \E t \in SampleTexts : \E c \in {0, Len(t)} : textarea = [text |-> t, cursor |-> c]
    /\ textarea_state = [scroll |-> 0]
    /\ complete \in BOOLEAN
    /\ submits = 0
    /\ op = "new"
    /\ arg = <<>>
    /\ ret = <<>>
    /\ calls = <<>>

LayoutNext ==
    \/ is_complete
    \/ \E width \in Widths : desired_height(width)
    \/ \E area \in Rects : render(area)
    \/ \E area \in Rects : cursor_pos(area)

LayoutSpec == LayoutInit /\ [][LayoutNext]_vars

----------------------------------------------------------------------------
(* Properties *)

IsEvent(o) == o \in {"handle_key_event", "handle_paste"}

IsPlainEnter(k) == k.code = "Enter" /\ k.modifiers = {}

OnSubmitCalls(cs) == Cardinality({i \in 1..Len(cs) : cs[i].fn = "on_submit"})

AllWhitespace(s, from, to) == \A j \in from..to : s[j] \in White_Space

\* `a` is `t` without its leading and trailing whitespace, the rest verbatim
IsTrimOf(a, t) ==
    /\ a # <<>> => (a[1] \notin White_Space /\ a[Len(a)] \notin White_Space)
    /\ \E i \in 0..Len(t) :
          /\ i + Len(a) <= Len(t)
          /\ SubSeq(t, i + 1, i + Len(a)) = a
          /\ AllWhitespace(t, 1, i)
          /\ AllWhitespace(t, i + Len(a) + 1, Len(t))

\* C1: an event invokes on_submit if and only if it is Enter with no modifiers
\* and the editor text, trimmed, is non-empty; Escape, Enter on empty or
\* whitespace-only text, modified Enter, any other key and any paste never do.
C1_SubmitIffPlainEnterOnText ==
    [][IsEvent(op') =>
         /\ OnSubmitCalls(calls') = submits' - submits
         /\ OnSubmitCalls(calls') \in {0, 1}
         /\ (OnSubmitCalls(calls') = 1) <=>
               /\ op' = "handle_key_event"
               /\ IsPlainEnter(arg')
               /\ ~AllWhitespace(textarea.text, 1, Len(textarea.text))]_vars

C1_Witness ==
    /\ op = "handle_key_event"
    /\ IsPlainEnter(arg)
    /\ OnSubmitCalls(calls) = 1
    /\ submits = 1

\* C2: on_submit is invoked at most once over the view's lifetime, whatever
\* events the view is sent.
C2_AtMostOnce == submits <= 1

\* C3: is_complete() is false on a fresh view, stays false under every event
\* that is neither Escape nor an unmodified Enter, and the first Escape (with
\* any modifiers) or unmodified Enter makes it true, whatever the text is.
C3_CompleteIffTerminalKey ==
    /\ complete = FALSE
    /\ [][/\ op' = "handle_key_event" =>
               complete' = (complete \/ arg'.code = "Esc" \/ IsPlainEnter(arg'))
          /\ op' = "handle_paste" => complete' = complete
          /\ op' = "is_complete" => ret' = complete]_vars

C3_Witness ==
    /\ op = "handle_key_event"
    /\ arg.code = "Esc"
    /\ arg.modifiers # {}
    /\ textarea.text # <<>>
    /\ complete

\* C4: complete is monotonic: once true, no operation sets it back to false.
C4_CompleteMonotonic == [][complete => complete']_vars

C4_Witness ==
    /\ complete
    /\ op = "handle_key_event"
    /\ arg.code = "Char"
    /\ submits = 0

\* C5: the argument on_submit is invoked with is the editor's text without
\* its leading and trailing whitespace, everything between kept verbatim, and
\* is never empty.
C5_ArgumentIsTrimmedText ==
    \A i \in 1..Len(calls) :
        calls[i].fn = "on_submit" =>
            /\ calls[i].arg # <<>>
            /\ IsTrimOf(calls[i].arg, textarea.text)

C5_Witness ==
    /\ op = "handle_key_event"
    /\ textarea.text = <<"a", "\r", "\n">>
    /\ \E i \in 1..Len(calls) :
          calls[i].fn = "on_submit" /\ calls[i].arg = <<"a">>

\* C6: Enter with a non-empty modifier set never changes complete and never
\* invokes on_submit: the raw event is forwarded to the editor.
C6_ModifiedEnterIsInput ==
    [][(op' = "handle_key_event" /\ arg'.code = "Enter" /\ arg'.modifiers # {}) =>
         /\ complete' = complete
         /\ submits' = submits
         /\ calls' = <<[fn |-> "textarea.input", arg |-> arg', rect |-> NoRect]>>]_vars

C6_Witness ==
    /\ op = "handle_key_event"
    /\ arg.code = "Enter"
    /\ arg.modifiers = {"SHIFT"}
    /\ ~complete
    /\ textarea.text = <<"a", "\n">>

\* C7: handle_paste returns false and leaves the editor alone for an empty
\* string, returns true after inserting the whole string in one call for a
\* non-empty one, and in both cases leaves complete alone and does not invoke
\* on_submit.
C7_Paste ==
    [][op' = "handle_paste" =>
         /\ complete' = complete
         /\ submits' = submits
         /\ OnSubmitCalls(calls') = 0
         /\ IF arg' = <<>>
            THEN /\ ret' = FALSE
                 /\ textarea' = textarea
                 /\ calls' = <<>>
            ELSE /\ ret' = TRUE
                 /\ calls' = <<[fn |-> "textarea.insert_str", arg |-> arg',
                                rect |-> NoRect]>>
                 /\ Len(textarea'.text) = Len(textarea.text) + Len(arg')
                 /\ SubSeq(textarea'.text, textarea.cursor + 1,
                           textarea.cursor + Len(arg')) = arg']_vars

C7_Witness ==
    /\ op = "handle_paste"
    /\ arg = <<" ", "a", "\n">>
    /\ ret = TRUE
    /\ ~complete
    /\ submits = 0

\* the rows of the title, the tallest input region, the spacer and the hints
DesiredHeightBound == 1 + MaxInputRows + 2

\* C8: for every width, 0 included, and every content, desired_height
\* completes without overflow and returns at least 3 and at most a fixed bound.
C8_DesiredHeightBounded ==
    op = "desired_height" =>
        /\ ~ret.overflow
        /\ ret.value >= 3
        /\ ret.value <= DesiredHeightBound

C8_Witness ==
    /\ op = "desired_height"
    /\ arg = 3
    /\ Len(textarea.text) > MaxTextRows
    /\ ret.value = DesiredHeightBound

\* C9: cursor_pos returns none whenever the rectangle's height is below 2 or
\* its width is at most 2, in any state, without a call on the editor.
C9_CursorPosNoneOnSmallRect ==
    (op = "cursor_pos" /\ (arg.height < 2 \/ arg.width <= 2)) =>
        /\ ~ret.some
        /\ calls = <<>>

C9_Witness ==
    /\ op = "cursor_pos"
    /\ arg.width = 2
    /\ arg.height = 5
    /\ textarea.text # <<>>
    /\ complete
    /\ ~ret.some

\* C10: render into a rectangle of width 0 or height 0 draws nothing, does
\* not render the editor and leaves the transient render state alone.
C10_RenderEmptyRectIsNoOp ==
    [][(op' = "render" /\ (arg'.width = 0 \/ arg'.height = 0)) =>
         /\ calls' = <<>>
         /\ textarea_state' = textarea_state]_vars

C10_Witness ==
    /\ op = "render"
    /\ arg.width = 0
    /\ arg.height = 12
    /\ calls = <<>>
    /\ textarea_state.scroll > 0

\* the editor's rows at the width left of the gutter, held within 1..8
ClampedEditorRows(w) ==
    LET h == TextAreaDesiredHeight(textarea, IF w >= 2 THEN w - 2 ELSE 0)
    IN  IF h < 1 THEN 1 ELSE IF h > 8 THEN 8 ELSE h

GutterDraws(cs) ==
    Cardinality({i \in 1..Len(cs) :
                    cs[i].fn = "Paragraph.render" /\ cs[i].arg = "gutter"})

\* C11: the input height desired_height, render and cursor_pos use is the
\* editor's height at width - 2 (saturating), clamped to 1..8, plus one; it
\* lies in 2..9, the cap at 9 never lowers it, and desired_height is
\* 1 + input height + 2, within 5..12.
C11_InputHeight ==
    /\ op = "desired_height" =>
          /\ ret.value = 1 + (ClampedEditorRows(arg) + 1) + 2
          /\ ClampedEditorRows(arg) + 1 \in 2..9
          /\ ret.value \in 5..12
    /\ (op = "render" /\ arg.width >= 2 /\ arg.height > 0) =>
          GutterDraws(calls) = ClampedEditorRows(arg.width) + 1
    /\ (op = "cursor_pos" /\ arg.height >= 2 /\ arg.width > 2) =>
          \E i \in 1..Len(calls) :
              /\ calls[i].fn = "textarea.cursor_pos_with_state"
              /\ calls[i].rect.height + 1 = ClampedEditorRows(arg.width) + 1

C11_Witness ==
    /\ op = "desired_height"
    /\ arg = 3
    /\ textarea.text = [i \in 1..8 |-> "a"]
    /\ ret.value = 12

IsDraw(c) == c.fn \in {"Paragraph.render", "Clear.render", "textarea.render_ref"}

Draws(cs) == {i \in 1..Len(cs) : IsDraw(cs[i])}

\* the part of the view a draw belongs to: title, input, blank or hint
PartOf(c) ==
    IF c.fn = "textarea.render_ref" THEN "input"
    ELSE IF c.arg \in {"gutter", "spacer", "placeholder"} THEN "input"
    ELSE c.arg

RowsOf(c) == c.rect.y .. (c.rect.y + c.rect.height - 1)

\* render, given `rows` input rows in area a, lays the four parts out on
\* rows of their own: title, input rows, blank spacer, hints
LaidOut(cs, a, rows) ==
    /\ \A i \in Draws(cs) :
          /\ PartOf(cs[i]) = "title" => RowsOf(cs[i]) = {a.y}
          /\ PartOf(cs[i]) = "input" => RowsOf(cs[i]) \subseteq (a.y + 1) .. (a.y + rows)
          /\ PartOf(cs[i]) = "blank" => RowsOf(cs[i]) = {a.y + 1 + rows}
          /\ PartOf(cs[i]) = "hint" =>
                /\ RowsOf(cs[i]) = {a.y + 2 + rows}
                /\ a.y + 2 + rows = a.y + a.height - 1
    /\ \A p \in {"title", "input", "blank", "hint"} :
          \E i \in Draws(cs) : PartOf(cs[i]) = p
    /\ \A r \in (a.y + 1) .. (a.y + rows) :
          \E i \in Draws(cs) : PartOf(cs[i]) = "input" /\ r \in RowsOf(cs[i])
    /\ \A i, j \in Draws(cs) :
          PartOf(cs[i]) # PartOf(cs[j]) => RowsOf(cs[i]) \cap RowsOf(cs[j]) = {}

RenderedAtDesiredHeight(minWidth) ==
    /\ op = "render"
    /\ arg.width >= minWidth
    /\ arg.height = desired_height_value(arg.width)
    /\ arg.y + arg.height <= U16Max

\* C12 as stated: render into a rectangle of width >= 1 and height
\* desired_height(width) draws title, input region, blank spacer and hints,
\* each on rows of its own, the hints on the rectangle's last row.
C12_DesiredHeightFitsRender_Width1 ==
    RenderedAtDesiredHeight(1) => LaidOut(calls, arg, arg.height - 3)

\* C12, amended: the same for every width >= 2 (at width 1 the rows of the
\* input region are reserved but nothing is drawn on them).
C12_DesiredHeightFitsRender ==
    /\ RenderedAtDesiredHeight(2) => LaidOut(calls, arg, arg.height - 3)
    /\ (RenderedAtDesiredHeight(1) /\ arg.width = 1) =>
          {PartOf(calls[i]) : i \in Draws(calls)} = {"title", "blank", "hint"}

C12_Witness ==
    /\ RenderedAtDesiredHeight(2)
    /\ arg = [x |-> 3, y |-> 5, width |-> 7, height |-> 12]
    /\ \E i \in Draws(calls) : PartOf(calls[i]) = "hint" /\ calls[i].rect.y = 16

\* C13: render issues no draw (title, gutter marker, spacer clear, editor
\* view, placeholder, blank row, hint row) on a sub-rectangle whose width or
\* height is 0; the editor view and the placeholder are drawn only when the
\* width left of the gutter is nonzero.
C13_NoDrawOnEmptySubRect ==
    op = "render" =>
        \A i \in Draws(calls) : calls[i].rect.width > 0 /\ calls[i].rect.height > 0

DrawsOf(cs, part) == {i \in Draws(cs) : PartOf(cs[i]) = part}

\* C14: render draws the blank spacer row (row 1 + input height) and the hint
\* row (one below) only if the row is strictly above the rectangle's bottom
\* edge y + height; a drawn row spans the rectangle's width on one row, and
\* the hint row is never drawn without the spacer row.
C14_SpacerAndHintFit ==
    op = "render" =>
        LET rows == ClampedEditorRows(arg.width) + 1
            bottom == arg.y + arg.height
        IN  /\ \A i \in DrawsOf(calls, "blank") :
                  /\ calls[i].rect = [x |-> arg.x, y |-> arg.y + 1 + rows,
                                      width |-> arg.width, height |-> 1]
                  /\ arg.y + 1 + rows < bottom
            /\ \A i \in DrawsOf(calls, "hint") :
                  /\ calls[i].rect = [x |-> arg.x, y |-> arg.y + 2 + rows,
                                      width |-> arg.width, height |-> 1]
                  /\ arg.y + 2 + rows < bottom
                  /\ DrawsOf(calls, "blank") # {}

C14_Witness ==
    /\ op = "render"
    /\ arg.height = 5
    /\ DrawsOf(calls, "blank") # {}
    /\ DrawsOf(calls, "hint") = {}

\* v + 2 in u16, saturating
Plus2(v) == IF v + 2 > U16Max THEN U16Max ELSE v + 2

\* the editing sub-rectangle of area a: 2 columns right, 2 rows down
EditingRect(a) ==
    [x |-> Plus2(a.x), y |-> Plus2(a.y), width |-> a.width - 2,
     height |-> ClampedEditorRows(a.width)]

\* C15: whenever height >= 2 and width > 2, the input height less the spacer
\* row is at least 1, cursor_pos calls the editor with the sub-rectangle
\* (x+2, y+2, width-2, input_height-1) and returns what the editor reports;
\* the `no editable rows` branch is never taken.
C15_CursorPosDelegates ==
    (op = "cursor_pos" /\ arg.height >= 2 /\ arg.width > 2) =>
        /\ EditingRect(arg).height >= 1
        /\ Len(calls) = 2
        /\ calls[2] = [fn |-> "textarea.cursor_pos_with_state", arg |-> <<>>,
                       rect |-> EditingRect(arg)]
        /\ ret = TextAreaCursorPosWithState(textarea, EditingRect(arg), textarea_state)

C15_Witness ==
    /\ op = "cursor_pos"
    /\ arg = [x |-> 0, y |-> 0, width |-> 7, height |-> 2]
    /\ ret = [some |-> TRUE, x |-> 3, y |-> 2]

\* C16: on every rectangle cursor_pos delegates on (height >= 2, width > 2),
\* and for the same content, the rectangle render hands to the editor's
\* stateful render is the one cursor_pos hands to the editor's cursor query,
\* and the query reads the state the render wrote.
C16_SameEditingRect ==
    /\ (op = "cursor_pos" /\ arg.height >= 2 /\ arg.width > 2) =>
          /\ renders_textarea(arg)
          /\ \E i \in 1..Len(calls) :
                /\ calls[i].fn = "textarea.cursor_pos_with_state"
                /\ calls[i].rect = render_textarea_rect(input_area(arg))
          /\ ret = TextAreaCursorPosWithState(textarea,
                       render_textarea_rect(input_area(arg)), textarea_state)
    /\ (op = "render" /\ arg.height >= 2 /\ arg.width > 2) =>
          /\ \E i \in 1..Len(calls) :
                /\ calls[i].fn = "textarea.render_ref"
                /\ calls[i].rect = cursor_pos_textarea_rect(arg)
          /\ TextAreaCursorPosWithState(textarea, cursor_pos_textarea_rect(arg),
                                        textarea_state).some

C16_Witness ==
    /\ op = "cursor_pos"
    /\ arg = [x |-> 3, y |-> 5, width |-> 7, height |-> 12]
    /\ textarea_state.scroll > 0
    /\ ret.some

\* C17: handling Escape leaves the editor text, the title and the transient
\* render state as they were and only sets complete; handling unmodified
\* Enter leaves the editor text as it was and does not forward the Enter to
\* the editor.
C17_TerminalKeysOnlyComplete ==
    [][/\ (op' = "handle_key_event" /\ arg'.code = "Esc") =>
             /\ textarea' = textarea
             /\ title' = title
             /\ textarea_state' = textarea_state
             /\ submits' = submits
             /\ calls' = <<>>
             /\ complete'
       /\ (op' = "handle_key_event" /\ IsPlainEnter(arg')) =>
             /\ textarea' = textarea
             /\ title' = title
             /\ textarea_state' = textarea_state
             /\ complete'
             /\ \A i \in 1..Len(calls') :
                   calls'[i].fn \notin {"textarea.input", "textarea.insert_str"}]_vars

C17_Witness ==
    /\ op = "handle_key_event"
    /\ IsPlainEnter(arg)
    /\ textarea = [text |-> <<" ", "\n">>, cursor |-> 1]
    /\ complete
    /\ submits = 0

\* rectangle r lies inside rectangle a
Inside(r, a) ==
    /\ a.x <= r.x
    /\ r.x + r.width <= a.x + a.width
    /\ a.y <= r.y
    /\ r.y + r.height <= a.y + a.height

\* a rectangle whose right and bottom edges are within the u16 range
InRange(a) == a.x + a.width <= U16Max /\ a.y + a.height <= U16Max

\* C18: render never writes outside the rectangle it is given: every cell
\* drawn by the title, gutter markers, spacer clear, editor view,
\* placeholder, blank row and hint row lies inside it, also when its height
\* is below desired_height(width).
C18_RenderStaysInside ==
    (op = "render" /\ InRange(arg)) =>
        \A i \in Draws(calls) :
            (calls[i].rect.width > 0 /\ calls[i].rect.height > 0) =>
                Inside(calls[i].rect, arg)

\* C19: whenever cursor_pos delegates to the editor, the editing
\* sub-rectangle it passes lies inside the host's rectangle, and so does a
\* caret the editor reports inside that sub-rectangle (for every rectangle
\* with height >= 2 and width > 2, height 2 included).
C19_CursorRectInside ==
    (op = "cursor_pos" /\ InRange(arg)) =>
        /\ \A i \in 1..Len(calls) :
              calls[i].fn = "textarea.cursor_pos_with_state" =>
                  Inside(calls[i].rect, arg)
        /\ ret.some =>
              Inside([x |-> ret.x, y |-> ret.y, width |-> 1, height |-> 1], arg)

IsQuery(o) == o \in {"desired_height", "render", "cursor_pos", "is_complete"}

\* C20: desired_height, render, cursor_pos and is_complete leave complete,
\* the title and the editor text as they were and never invoke on_submit;
\* only render may change the transient render state; and desired_height
\* asked again with the same width returns the same value.
C20_QueriesAreReadOnly ==
    [][IsQuery(op') =>
         /\ complete' = complete
         /\ title' = title
         /\ textarea' = textarea
         /\ submits' = submits
         /\ OnSubmitCalls(calls') = 0
         /\ op' # "render" => textarea_state' = textarea_state
         /\ (op = "desired_height" /\ op' = "desired_height" /\ arg' = arg) =>
               ret' = ret]_vars

C20_Witness ==
    /\ op = "render"
    /\ arg = [x |-> 0, y |-> 0, width |-> 7, height |-> 5]
    /\ textarea_state.scroll > 0
    /\ textarea.cursor = 12
    /\ complete

====
